---- MODULE Spec2Model ----
(***************************************************************************)
(* Travel-time tables of seismic/pick_harvester/travel_time.py:            *)
(*   - Phase._parse_tt and Phase.__init__ (table file -> grids ->          *)
(*     interpolants), specification SpecParse;                             *)
(*   - TTInterpolator.get_tt / get_dtdd / get_dtdh on the registry,        *)
(*     one caller (SpecQuery) and two unsynchronised threads (SpecConc).   *)
(***************************************************************************)
EXTENDS Integers, Sequences, FiniteSets, TLC

VARIABLES
    lines,      \* the table file: one entry per physical line, line.split()
    ppc,        \* Phase(): "start", "parsed", "built" or "failed"
    table,      \* what _parse_tt left on self (and how it ended)
    phaseObj,   \* the three interpolants of the Phase object
    phases,     \* TTInterpolator.phases
    phases0,    \* TTInterpolator.phases as __init__ left it
    th          \* per caller: position in get_*, arguments, locals, outcome

vars == <<lines, ppc, table, phaseObj, phases, phases0, th>>

(***************************************************************************)
(* Bounds of the model.                                                    *)
(***************************************************************************)
MaxDist == 2
MaxDepth == 2
MaxBatch == 2

(***************************************************************************)
(* Table file text.  A line is the token list line.split() yields.         *)
(***************************************************************************)
MDelta == <<"#", "delta", "samples">>
MDepth == <<"#", "depth", "samples">>
MTimes == <<"#", "travel", "times", "(rows", "-", "delta,", "columns", "-", "depth)">>
MDtdd == <<"#", "dtdd", "(rows", "-", "delta,", "columns", "-", "depth)">>
MDtdh == <<"#", "dtdh", "(rows", "-", "delta,", "columns", "-", "depth)">>
Markers == <<MDelta, MDepth, MTimes, MDtdd, MDtdh>>
CommentLine == <<"#">>

NumToks == <<"0.0", "1.0", "2.0", "3.0", "4.0", "5.0", "6.0", "7.0", "8.0", "9.0">>
NanToks == {"-999.0", "-999"}

\* float(item): the tokens float() accepts, and the number each denotes
IsNumeric(tok) == tok \in NanToks \/ \E n \in 1..Len(NumToks) : NumToks[n] = tok
FloatOf(tok) ==
    IF tok \in NanToks THEN -999
    ELSE (CHOOSE n \in 1..Len(NumToks) : NumToks[n] = tok) - 1

nanval == -999

(***************************************************************************)
(* _parse_tt, first loop: the section boundaries.                          *)
(***************************************************************************)
InitIdx ==
    [dists_start |-> 0, dists_end |-> 0, depths_start |-> 0, depths_end |-> 0,
     times_start |-> 0, times_end |-> 0, dtdd_start |-> 0, dtdd_end |-> 0,
     dtdh_start |-> 0, dtdh_end |-> 0]

ScanLine(ix, row, ind) ==
    IF row = MDelta THEN [ix EXCEPT !.dists_start = ind + 1]
    ELSE IF row = MDepth THEN
        [ix EXCEPT !.dists_end = ind - 1, !.depths_start = ind + 1]
    ELSE IF row = MTimes THEN
        [ix EXCEPT !.depths_end = ind - 2, !.times_start = ind + 2]
    ELSE IF row = MDtdd THEN
        [ix EXCEPT !.times_end = ind - 2, !.dtdd_start = ind + 2]
    ELSE IF row = MDtdh THEN
        [ix EXCEPT !.dtdd_end = ind - 2, !.dtdh_start = ind + 2]
    ELSE ix

RECURSIVE ScanFrom(_, _, _)
ScanFrom(ls, ind, ix) ==
    IF ind = Len(ls) THEN ix
    ELSE ScanFrom(ls, ind + 1, ScanLine(ix, ls[ind + 1], ind))

FirstPass(ls) == [ScanFrom(ls, 0, InitIdx) EXCEPT !.dtdh_end = Len(ls) - 4]

(***************************************************************************)
(* _parse_tt, second loop: the numbers of each section.  ind in            *)
(* range(a, b + 1) is a <= ind <= b.                                       *)
(***************************************************************************)
InRange(ind, a, b) == a <= ind /\ ind <= b

Floats(row) == [k \in 1..Len(row) |-> FloatOf(row[k])]
AllNumeric(row) == \A k \in 1..Len(row) : IsNumeric(row[k])

InitAcc ==
    [err |-> "", ecdists |-> <<>>, depths_km |-> <<>>, times |-> <<>>,
     dtdd |-> <<>>, dtdh |-> <<>>]

\* the first range of the elif chain that holds ind
SectionOf(ind, ix) ==
    IF InRange(ind, ix.dists_start, ix.dists_end) THEN "ecdists"
    ELSE IF InRange(ind, ix.depths_start, ix.depths_end) THEN "depths_km"
    ELSE IF InRange(ind, ix.times_start, ix.times_end) THEN "times"
    ELSE IF InRange(ind, ix.dtdd_start, ix.dtdd_end) THEN "dtdd"
    ELSE IF InRange(ind, ix.dtdh_start, ix.dtdh_end) THEN "dtdh"
    ELSE "none"

\* mutant of ReadLine: a sample line replaces the list instead of extending it
ReadLineOverwrite(acc, row, ind, ix) ==
    LET sec == SectionOf(ind, ix) IN
    IF sec = "none" THEN acc
    ELSE IF ~AllNumeric(row) THEN [acc EXCEPT !.err = "ValueError"]
    ELSE IF sec \in {"ecdists", "depths_km"}
    THEN [acc EXCEPT ![sec] = Floats(row)]
    ELSE [acc EXCEPT ![sec] = @ \o <<Floats(row)>>]

\* a line of a sample section extends the list by its numbers; a line of a
\* matrix section appends one row
ReadLine(acc, row, ind, ix) ==
    LET sec == SectionOf(ind, ix) IN
    IF sec = "none" THEN acc
    ELSE IF ~AllNumeric(row) THEN [acc EXCEPT !.err = "ValueError"]
    ELSE IF sec \in {"ecdists", "depths_km"}
    THEN [acc EXCEPT ![sec] = @ \o Floats(row)]
    ELSE [acc EXCEPT ![sec] = @ \o <<Floats(row)>>]

RECURSIVE ReadFrom(_, _, _, _)
ReadFrom(ls, ind, ix, acc) ==
    IF ind = Len(ls) \/ acc.err # "" THEN acc
    ELSE ReadFrom(ls, ind + 1, ix, ReadLine(acc, ls[ind + 1], ind, ix))

SecondPass(ls, ix) == ReadFrom(ls, 0, ix, InitAcc)

(***************************************************************************)
(* _parse_tt, numpy part: np.array, the -999.0 cells, the two asserts.     *)
(***************************************************************************)
NaN == [nan |-> TRUE, v |-> 0]
Num(x) == [nan |-> FALSE, v |-> x]
IsNaN(c) == c.nan

\* np.array(list of rows) is a float matrix only when the rows agree in length
IsRect(m) == \A i \in 1..Len(m) : Len(m[i]) = Len(m[1])

\* a[a == nanval] = np.nan
MarkNaN(m) ==
    [i \in 1..Len(m) |->
        [j \in 1..Len(m[i]) |-> IF m[i][j] = nanval THEN NaN ELSE Num(m[i][j])]]

\* numpy shape, a leading 1 added to the shape (0,) of np.array([])
Shape2(m) == IF Len(m) = 0 THEN <<1, 0>> ELSE <<Len(m), Len(m[1])>>
Broadcastable(s, t) == \A k \in 1..2 : s[k] = t[k] \/ s[k] = 1 \/ t[k] = 1
BDim(a, b) == IF a = 1 THEN b ELSE a
BIdx(i, n) == IF n = 1 THEN 1 ELSE i

\* mutant of MasksAgree: the assert is dropped
MasksAgreeNoAssert(a, b) == TRUE

\* np.all(np.isnan(a) == np.isnan(b)), the comparison broadcast by numpy
MasksAgree(a, b) ==
    LET s == Shape2(a)
        t == Shape2(b)
    IN  /\ Broadcastable(s, t)
        /\ \A i \in 1..BDim(s[1], t[1]) : \A j \in 1..BDim(s[2], t[2]) :
              IsNaN(a[BIdx(i, s[1])][BIdx(j, s[2])])
                  = IsNaN(b[BIdx(i, t[1])][BIdx(j, t[2])])

ParseFailed(ix, kind) ==
    [ok |-> FALSE, err |-> kind, idx |-> ix, ecdists |-> <<>>, depths_km |-> <<>>,
     times |-> <<>>, dtdd |-> <<>>, dtdh |-> <<>>]

ParseTT(ls) ==
    LET ix == FirstPass(ls)
        acc == SecondPass(ls, ix)
    IN  IF acc.err # "" THEN ParseFailed(ix, acc.err)
        ELSE IF ~(IsRect(acc.times) /\ IsRect(acc.dtdd) /\ IsRect(acc.dtdh))
        THEN ParseFailed(ix, "ValueError")
        ELSE LET t == MarkNaN(acc.times)
                 d == MarkNaN(acc.dtdd)
                 h == MarkNaN(acc.dtdh)
             IN  IF ~(MasksAgree(t, d) /\ MasksAgree(t, h))
                 THEN ParseFailed(ix, "AssertionError")
                 ELSE [ok |-> TRUE, err |-> "", idx |-> ix,
                       ecdists |-> acc.ecdists, depths_km |-> acc.depths_km,
                       times |-> t, dtdd |-> d, dtdh |-> h]

(***************************************************************************)
(* Phase.__init__ after _parse_tt: the three interpolants.                 *)
(***************************************************************************)
RECURSIVE Flatten(_)
Flatten(m) == IF Len(m) = 0 THEN <<>> ELSE Head(m) \o Flatten(Tail(m))

\* np.meshgrid(..., indexing='ij'), flattened and stacked: point k = (i, j)
MeshPoints(xs, ys) ==
    [k \in 1..(Len(xs) * Len(ys)) |->
        <<xs[((k - 1) \div Len(ys)) + 1], ys[((k - 1) % Len(ys)) + 1]>>]

RECURSIVE Pick(_, _, _)
Pick(seq, mask, k) ==
    IF k > Len(mask) THEN <<>>
    ELSE (IF mask[k] THEN <<seq[k]>> ELSE <<>>) \o Pick(seq, mask, k + 1)

\* vidx = ~np.isnan(self.times.flatten())
ValidIndex(flat) == [k \in 1..Len(flat) |-> ~IsNaN(flat[k])]

Cross(a, b, c) == (b[1] - a[1]) * (c[2] - a[2]) - (b[2] - a[2]) * (c[1] - a[1])

\* the triangulation CloughTocher2DInterpolator builds needs three points
\* that are not on one line
Degenerate(pts) ==
    \/ Len(pts) < 3
    \/ \A a \in 1..Len(pts) : \A b \in 1..Len(pts) : \A c \in 1..Len(pts) :
          Cross(pts[a], pts[b], pts[c]) = 0

\* CloughTocher2DInterpolator(points, values, fill_value=...)
Interpolator(pts, vals) == [points |-> pts, values |-> vals]
NoInterpolator == Interpolator(<<>>, <<>>)

NoPhase ==
    [ok |-> FALSE, err |-> "", times_io |-> NoInterpolator,
     dtdd_io |-> NoInterpolator, dtdh_io |-> NoInterpolator]

BuildPhase(t) ==
    LET points == MeshPoints(t.ecdists, t.depths_km)
        tflat == Flatten(t.times)
        dflat == Flatten(t.dtdd)
        hflat == Flatten(t.dtdh)
        vidx == ValidIndex(tflat)
    IN  IF Len(vidx) # Len(points) THEN [NoPhase EXCEPT !.err = "IndexError"]
        ELSE IF Degenerate(Pick(points, vidx, 1))
        THEN [NoPhase EXCEPT !.err = "QhullError"]
        ELSE IF Len(dflat) # Len(vidx) \/ Len(hflat) # Len(vidx)
        THEN [NoPhase EXCEPT !.err = "IndexError"]
        ELSE [ok |-> TRUE, err |-> "",
              times_io |-> Interpolator(Pick(points, vidx, 1), Pick(tflat, vidx, 1)),
              dtdd_io |-> Interpolator(Pick(points, vidx, 1), Pick(dflat, vidx, 1)),
              dtdh_io |-> Interpolator(Pick(points, vidx, 1), Pick(hflat, vidx, 1))]

(***************************************************************************)
(* Table files the parser is run on.  A file is laid out as the offsets    *)
(* of _parse_tt expect it: the two sample sections, one comment line       *)
(* before and after each matrix marker, three closing lines.  The          *)
(* parameters vary the grid size, a heading line, one absent marker, the   *)
(* wrapping of a logical row over two physical lines, a matrix cut to its  *)
(* first row, and the -999.0 cells of the three matrices (one cell, or    *)
(* the whole column of that cell; mm names a matrix whose -999.0 cell      *)
(* is another one).                                                        *)
(***************************************************************************)
WrapModes == {"none", "dist", "depth", "row1", "rows"}
GridNames == {"times", "dtdd", "dtdh"}

FileParams ==
    [nd : 1..MaxDist, nh : 1..MaxDepth, pre : BOOLEAN, miss : 0..5,
     wrap : WrapModes, short : {"none"} \cup GridNames,
     nanT : 0..(MaxDist * MaxDepth), col : BOOLEAN, mm : {"same", "dtdd", "dtdh"}]

SplitLine(toks) == IF Len(toks) >= 2 THEN << <<toks[1]>>, Tail(toks) >> ELSE <<toks>>

RECURSIVE Concat(_)
Concat(ss) == IF Len(ss) = 0 THEN <<>> ELSE Head(ss) \o Concat(Tail(ss))

GridOffset(g) == CASE g = "times" -> 0 [] g = "dtdd" -> 1 [] g = "dtdh" -> 2

GenFile(p) ==
    LET nc == p.nd * p.nh
        nanOf(g) == IF p.mm = g THEN (p.nanT % nc) + 1 ELSE p.nanT
        isNan(g, k) ==
            nanOf(g) > 0 /\ (k = nanOf(g) \/ (p.col /\ (k - nanOf(g)) % p.nh = 0))
        cellTok(g, k) ==
            IF isNan(g, k) THEN "-999.0"
            ELSE NumToks[((k + GridOffset(g)) % Len(NumToks)) + 1]
        row(g, i) == [j \in 1..p.nh |-> cellTok(g, (i - 1) * p.nh + j)]
        rowLines(g, i) ==
            IF p.wrap = "rows" \/ (p.wrap = "row1" /\ g = "times" /\ i = 1)
            THEN SplitLine(row(g, i)) ELSE <<row(g, i)>>
        nrows(g) == IF p.short = g THEN 1 ELSE p.nd
        matrix(g) == Concat([i \in 1..nrows(g) |-> rowLines(g, i)])
        dists == [i \in 1..p.nd |-> NumToks[i]]
        depths == [j \in 1..p.nh |-> NumToks[j]]
        marker(k) == IF p.miss = k THEN <<>> ELSE <<Markers[k]>>
    IN  (IF p.pre THEN << <<"#", "table">> >> ELSE <<>>)
        \o marker(1) \o (IF p.wrap = "dist" THEN SplitLine(dists) ELSE <<dists>>)
        \o marker(2) \o (IF p.wrap = "depth" THEN SplitLine(depths) ELSE <<depths>>)
        \o <<CommentLine>> \o marker(3) \o <<CommentLine>> \o matrix("times")
        \o <<CommentLine>> \o marker(4) \o <<CommentLine>> \o matrix("dtdd")
        \o <<CommentLine>> \o marker(5) \o <<CommentLine>> \o matrix("dtdh")
        \o <<CommentLine, CommentLine, CommentLine>>

Files == {GenFile(p) : p \in {q \in FileParams : q.nanT <= q.nd * q.nh}}

NoTable == ParseFailed(InitIdx, "")

(***************************************************************************)
(* Floating point of the query results.  A finite positive binary64 is     *)
(* [e, hi, lo]: the number (hi * 2^29 + lo) * 2^(e - 52), hi the leading   *)
(* 24 bits of its 53-bit significand and lo the other 29.  A float32 is    *)
(* such a number with lo = 0.                                              *)
(***************************************************************************)
F(e, hi, lo) == [e |-> e, hi |-> hi, lo |-> lo]

\* float(np.iinfo('i4').max) = 2147483647.0 = (2^31 - 1)
LARGE_VALUE == F(30, 2^24 - 1, 127 * 2^22)

\* binary64 -> float32 (dtype 'f4'), round to nearest, ties to even
ToF4(x) ==
    LET up == x.lo > 2^28 \/ (x.lo = 2^28 /\ x.hi % 2 = 1) IN
    IF ~up THEN F(x.e, x.hi, 0)
    ELSE IF x.hi + 1 = 2^24 THEN F(x.e + 1, 2^23, 0)
    ELSE F(x.e, x.hi + 1, 0)

(***************************************************************************)
(* The registry TTInterpolator.__init__ builds.  A dict is [keys, objs]:   *)
(* its keys in insertion order and the object under each key.              *)
(***************************************************************************)
Fns == {"tt", "dtdd", "dtdh"}
Labels == {"P", "S", "X"}
UnhashableModel == "['ak135']"
Hashable(model) == model # UnhashableModel

\* the sample points of the registered tables, and a point far outside them
SamplePoints == << <<0, 0>>, <<1, 0>>, <<0, 1>> >>
FarPoint == <<-1000, -1000>>
QueryPoints == {SamplePoints[1], SamplePoints[2], FarPoint}

\* table values: significands with the low 29 bits zero, below half, at
\* half and above half of a float32 step
SampleValue(n) == F(9, 2^23 + n, (n % 4) * 2^27)

FnIndex(fn) == CASE fn = "tt" -> 0 [] fn = "dtdd" -> 1 [] fn = "dtdh" -> 2

TableInterpolator(base, fn) ==
    [points |-> SamplePoints,
     values |-> [k \in 1..Len(SamplePoints) |-> SampleValue(base + 3 * FnIndex(fn) + k)]]

PhaseOf(base) ==
    [isPhase |-> TRUE, times_io |-> TableInterpolator(base, "tt"),
     dtdd_io |-> TableInterpolator(base, "dtdd"),
     dtdh_io |-> TableInterpolator(base, "dtdh")]

\* what defaultdict(list) would put under a missing phase key
EmptyList ==
    [isPhase |-> FALSE, times_io |-> NoInterpolator, dtdd_io |-> NoInterpolator,
     dtdh_io |-> NoInterpolator]

\* defaultdict(list), empty
EmptyDict == [keys |-> <<>>, objs |-> [l \in {} |-> EmptyList]]

DictPut(d, key, obj) ==
    [keys |-> IF key \in DOMAIN d.objs THEN d.keys ELSE Append(d.keys, key),
     objs |-> [l \in DOMAIN d.objs \cup {key} |-> IF l = key THEN obj ELSE d.objs[l]]]

\* the tt folder holds ak135.P.tab, ak135.S.tab and iasp91.P.tab; glob lists
\* them in an order the file system chooses
Registry(pFirst) ==
    [m \in {"ak135", "iasp91"} |->
        IF m = "iasp91" THEN DictPut(EmptyDict, "P", PhaseOf(20))
        ELSE IF pFirst
        THEN DictPut(DictPut(EmptyDict, "P", PhaseOf(0)), "S", PhaseOf(10))
        ELSE DictPut(DictPut(EmptyDict, "S", PhaseOf(10)), "P", PhaseOf(0))]

Registries == {Registry(TRUE), Registry(FALSE)}

\* the interpolant at a point: the table value at a sample point, the fill
\* value outside the convex hull of the samples
Evaluate(io, x, y) ==
    IF \E k \in 1..Len(io.points) : io.points[k] = <<x, y>>
    THEN io.values[CHOOSE k \in 1..Len(io.points) : io.points[k] = <<x, y>>]
    ELSE LARGE_VALUE

InterpolatorOf(obj, fn) ==
    CASE fn = "tt" -> obj.times_io [] fn = "dtdd" -> obj.dtdd_io [] fn = "dtdh" -> obj.dtdh_io

(***************************************************************************)
(* get_tt / get_dtdd / get_dtdh.  A call is [fn, batched, phase, ecdist,   *)
(* depth_km, model]; a scalar call holds one label and one coordinate      *)
(* pair.  StepQ is one step of a call between two accesses to              *)
(* self.phases; a caller's locals are [pc, q, result, keys, nkeys, exc,    *)
(* out].                                                                   *)
(***************************************************************************)
Threads == {"t1", "t2"}

NoQuery ==
    [fn |-> "tt", batched |-> FALSE, phase |-> <<>>, ecdist |-> <<>>,
     depth_km |-> <<>>, model |-> ""]
NoOut == [kind |-> "none", exc |-> "", model |-> "", value |-> <<>>]
Idle ==
    [pc |-> "idle", q |-> NoQuery, result |-> <<>>, keys |-> <<>>, nkeys |-> 0,
     exc |-> "", out |-> NoOut]
Start(q) == [Idle EXCEPT !.pc = "call", !.q = q]

Returned(st) ==
    [st EXCEPT !.pc = "done",
               !.out = [kind |-> "return", exc |-> "", model |-> "", value |-> st.result]]
Raised(st, kind) == [st EXCEPT !.pc = "except", !.exc = kind]

\* mutant of Handler: only KeyError is turned into the ValueError
HandlerKeyErrorOnly(st) ==
    [st EXCEPT !.pc = "done",
               !.out = [kind |-> "raise",
                        exc |-> IF st.exc = "KeyError" THEN "ValueError" ELSE st.exc,
                        model |-> IF st.exc = "KeyError" THEN st.q.model ELSE "",
                        value |-> <<>>]]

\* except Exception: raise ValueError('Either model {} or phase not found..')
Handler(st) ==
    [st EXCEPT !.pc = "done",
               !.out = [kind |-> "raise", exc |-> "ValueError",
                        model |-> st.q.model, value |-> <<>>]]

\* result = np.ones(len(phase), dtype='f4') * self.fill_value, or
\* result = self.fill_value
Enter(st) ==
    [st EXCEPT !.pc = "lookup",
               !.result = IF st.q.batched
                          THEN [i \in 1..Len(st.q.phase) |-> ToF4(LARGE_VALUE)]
                          ELSE <<LARGE_VALUE>>]

\* mutant of Member: the phase is looked up with [] on the defaultdict
MemberInserting(d, label) ==
    [d |-> IF label \in DOMAIN d.objs THEN d ELSE DictPut(d, label, EmptyList),
     found |-> label \in DOMAIN d.objs]

\* phase in self.phases[model].keys()
Member(d, label) == [d |-> d, found |-> label \in DOMAIN d.objs]

\* the call goes on with the dict self.phases[model] gave it
AfterLookup(reg, st, inner) ==
    IF st.q.batched
    THEN [reg |-> reg,
          st |-> [st EXCEPT !.pc = "iter", !.keys = inner.keys, !.nkeys = Len(inner.keys)]]
    ELSE LET r == Member(inner, st.q.phase[1]) IN
         [reg |-> [reg EXCEPT ![st.q.model] = r.d],
          st |-> IF r.found THEN [st EXCEPT !.pc = "eval"] ELSE Returned(st)]

\* self.phases[model]: a model that is no key sends the defaultdict to its
\* factory
Lookup(reg, st) ==
    IF ~Hashable(st.q.model) THEN [reg |-> reg, st |-> Raised(st, "TypeError")]
    ELSE IF st.q.model \in DOMAIN reg THEN AfterLookup(reg, st, reg[st.q.model])
    ELSE [reg |-> reg, st |-> [st EXCEPT !.pc = "missing"]]

\* defaultdict.__missing__: the factory's new dict is stored under the key
Missing(reg, st) ==
    AfterLookup([m \in DOMAIN reg \cup {st.q.model} |->
                    IF m = st.q.model THEN EmptyDict ELSE reg[m]],
                st, EmptyDict)

\* np.argwhere(cphase == phase).flatten()
RECURSIVE IndicesFrom(_, _, _)
IndicesFrom(phase, cphase, i) ==
    IF i > Len(phase) THEN <<>>
    ELSE (IF phase[i] = cphase THEN <<i>> ELSE <<>>) \o IndicesFrom(phase, cphase, i + 1)
Indices(phase, cphase) == IndicesFrom(phase, cphase, 1)

\* mutant of Scatter: the group's values go to the front of the result
ScatterFront(result, indices, vals) ==
    [i \in 1..Len(result) |-> IF i <= Len(indices) THEN ToF4(vals[i]) ELSE result[i]]

\* result[indices] = vals, result a float32 array
Scatter(result, indices, vals) ==
    [i \in 1..Len(result) |->
        IF \E k \in 1..Len(indices) : indices[k] = i
        THEN ToF4(vals[CHOOSE k \in 1..Len(indices) : indices[k] = i])
        ELSE result[i]]

\* one round of `for cphase in self.phases[model].keys()`
Iterate(reg, st) ==
    LET d == reg[st.q.model] IN
    IF Len(d.keys) # st.nkeys THEN Raised(st, "RuntimeError")
    ELSE IF st.keys = <<>> THEN Returned(st)
    ELSE LET cphase == Head(st.keys)
             indices == Indices(st.q.phase, cphase)
         IN  IF indices = <<>> THEN [st EXCEPT !.keys = Tail(@)]
             ELSE IF ~d.objs[cphase].isPhase THEN Raised(st, "AttributeError")
             ELSE IF \E k \in 1..Len(indices) :
                        indices[k] > Len(st.q.ecdist) \/ indices[k] > Len(st.q.depth_km)
             THEN Raised(st, "IndexError")
             ELSE LET io == InterpolatorOf(d.objs[cphase], st.q.fn)
                      vals == [k \in 1..Len(indices) |->
                                  Evaluate(io, st.q.ecdist[indices[k]],
                                           st.q.depth_km[indices[k]])]
                  IN  [st EXCEPT !.keys = Tail(@),
                                 !.result = Scatter(st.result, indices, vals)]

\* result = self.phases[model][phase].times_io(ecdist, depth_km)
EvalScalar(reg, st) ==
    LET obj == reg[st.q.model].objs[st.q.phase[1]] IN
    IF ~obj.isPhase THEN Raised(st, "AttributeError")
    ELSE Returned([st EXCEPT !.result =
            <<Evaluate(InterpolatorOf(obj, st.q.fn), st.q.ecdist[1], st.q.depth_km[1])>>])

StepQ(reg, st) ==
    CASE st.pc = "call" -> [reg |-> reg, st |-> Enter(st)]
      [] st.pc = "lookup" -> Lookup(reg, st)
      [] st.pc = "missing" -> Missing(reg, st)
      [] st.pc = "iter" -> [reg |-> reg, st |-> Iterate(reg, st)]
      [] st.pc = "eval" -> [reg |-> reg, st |-> EvalScalar(reg, st)]
      [] st.pc = "except" -> [reg |-> reg, st |-> Handler(st)]

\* a call run from its first step to its return or raise, nothing else running
RECURSIVE RunFrom(_)
RunFrom(c) == IF c.st.pc = "done" THEN c ELSE RunFrom(StepQ(c.reg, c.st))
Run(reg, st) == RunFrom([reg |-> reg, st |-> st])

(***************************************************************************)
(* The calls made.                                                         *)
(***************************************************************************)
ModelArgs == {"ak135", "iasp91", "zz", UnhashableModel}

ScalarOf(fn, l, c, m) ==
    [fn |-> fn, batched |-> FALSE, phase |-> <<l>>, ecdist |-> <<c[1]>>,
     depth_km |-> <<c[2]>>, model |-> m]

\* short: the distance array lacks its last entry
BatchedOf(fn, ls, cs, m, short) ==
    LET n == Len(ls) IN
    [fn |-> fn, batched |-> TRUE, phase |-> ls,
     ecdist |-> [i \in 1..(IF short /\ n > 0 THEN n - 1 ELSE n) |-> cs[i][1]],
     depth_km |-> [i \in 1..n |-> cs[i][2]], model |-> m]

\* the calls of the two threads: every shape and function, a registered and
\* an unregistered model and label, at one sample point
ConcQueries ==
    {[fn |-> fn, batched |-> FALSE, phase |-> <<l>>, ecdist |-> <<0>>,
      depth_km |-> <<0>>, model |-> m] :
        fn \in Fns, l \in {"P", "X"}, m \in {"ak135", "zz"}}
    \cup {BatchedOf(fn, ls, << <<0, 0>>, <<0, 0>> >>, m, FALSE) :
        fn \in Fns, ls \in {<<"S", "P">>, <<"X", "P">>}, m \in {"ak135", "zz"}}

(***************************************************************************)
(* Actions.                                                                *)
(***************************************************************************)
\* Phase.__init__, line 22: self._parse_tt(tt_fn)
DoParse ==
    /\ ppc = "start"
    /\ table' = ParseTT(lines)
    /\ ppc' = IF table'.ok THEN "parsed" ELSE "failed"
    /\ UNCHANGED <<lines, phaseObj, phases, phases0, th>>

\* Phase.__init__, lines 24-32
DoBuild ==
    /\ ppc = "parsed"
    /\ phaseObj' = BuildPhase(table)
    /\ ppc' = IF phaseObj'.ok THEN "built" ELSE "failed"
    /\ UNCHANGED <<lines, table, phases, phases0, th>>

\* a whole call of get_tt, get_dtdd or get_dtdh by the one caller
Call(q) ==
    /\ th["t1"].pc = "idle"
    /\ LET r == Run(phases, Start(q)) IN
          /\ phases' = r.reg
          /\ th' = [th EXCEPT !["t1"] = r.st]
    /\ UNCHANGED <<lines, ppc, table, phaseObj, phases0>>

\* thread t enters get_*
Begin(t, q) ==
    /\ th[t].pc = "idle"
    /\ th' = [th EXCEPT ![t] = Start(q)]
    /\ UNCHANGED <<lines, ppc, table, phaseObj, phases, phases0>>

\* thread t runs to its next access of self.phases
Step(t) ==
    /\ th[t].pc \notin {"idle", "done"}
    /\ LET r == StepQ(phases, th[t]) IN
          /\ phases' = r.reg
          /\ th' = [th EXCEPT ![t] = r.st]
    /\ UNCHANGED <<lines, ppc, table, phaseObj, phases0>>

\* the caller has the value or the exception
Return(t) ==
    /\ th[t].pc = "done"
    /\ th' = [th EXCEPT ![t] = Idle]
    /\ UNCHANGED <<lines, ppc, table, phaseObj, phases, phases0>>

InitParse ==
    /\ lines \in Files
    /\ ppc = "start"
    /\ table = NoTable
    /\ phaseObj = NoPhase
    /\ phases = [m \in {} |-> EmptyDict]
    /\ phases0 = phases
    /\ th = [t \in Threads |-> Idle]

InitQuery ==
    /\ lines = <<>>
    /\ ppc = "none"
    /\ table = NoTable
    /\ phaseObj = NoPhase
    /\ phases \in Registries
    /\ phases0 = phases
    /\ th = [t \in Threads |-> Idle]

NextParse == DoParse \/ DoBuild
\* one call with scalar arguments
CallScalar ==
    /\ th["t1"].pc = "idle"
    /\ \E fn \in Fns, l \in Labels, c \in QueryPoints, m \in ModelArgs :
          Call(ScalarOf(fn, l, c, m))

\* one call with array arguments of up to MaxBatch entries
CallBatched ==
    /\ th["t1"].pc = "idle"
    /\ \E n \in 0..MaxBatch, fn \in Fns, m \in ModelArgs, short \in BOOLEAN :
          \E ls \in [1..n -> Labels], cs \in [1..n -> QueryPoints] :
              Call(BatchedOf(fn, ls, cs, m, short))

NextQuery == CallScalar \/ CallBatched \/ Return("t1")
NextConc == \E t \in Threads : (\E q \in ConcQueries : Begin(t, q)) \/ Step(t) \/ Return(t)

SpecParse == InitParse /\ [][NextParse]_vars
SpecQuery == InitQuery /\ [][NextQuery]_vars
SpecConc == InitQuery /\ [][NextConc]_vars

(***************************************************************************)
(* Claims about Phase._parse_tt and Phase.__init__ (SpecParse).            *)
(***************************************************************************)
ParseReturned == ppc \in {"parsed", "built"} \/ (ppc = "failed" /\ table.ok)

NaNCells(m) ==
    UNION {{<<i, j>> : j \in {c \in 1..Len(m[i]) : IsNaN(m[i][c])}} : i \in 1..Len(m)}

MarkerAt(ls, k) == {i \in 1..Len(ls) : ls[i] = Markers[k]}
FiveMarkersInOrder(ls) ==
    /\ \A k \in 1..5 : Cardinality(MarkerAt(ls, k)) = 1
    /\ \A k \in 1..4 : \A i \in MarkerAt(ls, k) : \A j \in MarkerAt(ls, k + 1) : i < j

\* what _parse_tt yields, without the line numbers of the sections
Arrays(t) ==
    [ok |-> t.ok, err |-> t.err, ecdists |-> t.ecdists, depths_km |-> t.depths_km,
     times |-> t.times, dtdd |-> t.dtdd, dtdh |-> t.dtdh]

\* lines a..b (counted from 0, as ind is) replaced by the lines given
ReplaceSection(ls, a, b, new) == SubSeq(ls, 1, a) \o new \o SubSeq(ls, b + 2, Len(ls))
SectionTokens(ls, a, b) == Concat(SubSeq(ls, a + 1, b + 1))

RECURSIVE Regroup(_, _)
Regroup(toks, n) ==
    IF Len(toks) = 0 THEN <<>>
    ELSE IF n = 0 \/ Len(toks) <= n THEN <<toks>>
    ELSE <<SubSeq(toks, 1, n)>> \o Regroup(SubSeq(toks, n + 1, Len(toks)), n)

\* the file with each list of samples on one physical line
UnwrapSamples(ls) ==
    LET ix == FirstPass(ls)
        a == ReplaceSection(ls, ix.depths_start, ix.depths_end,
                            <<SectionTokens(ls, ix.depths_start, ix.depths_end)>>)
    IN  ReplaceSection(a, ix.dists_start, ix.dists_end,
                       <<SectionTokens(ls, ix.dists_start, ix.dists_end)>>)

\* the file with every logical row on one physical line: a matrix row holds
\* one number per depth sample
Unwrapped(ls) ==
    LET ix == FirstPass(ls)
        nh == Len(SectionTokens(ls, ix.depths_start, ix.depths_end))
        rows(a, b) == Regroup(SectionTokens(ls, a, b), nh)
        h == ReplaceSection(ls, ix.dtdh_start, ix.dtdh_end, rows(ix.dtdh_start, ix.dtdh_end))
        d == ReplaceSection(h, ix.dtdd_start, ix.dtdd_end, rows(ix.dtdd_start, ix.dtdd_end))
        t == ReplaceSection(d, ix.times_start, ix.times_end, rows(ix.times_start, ix.times_end))
    IN  UnwrapSamples(t)

\* C4 (as claimed): once _parse_tt has returned (here: on a file with the
\* five markers in order), a cell is undefined in the
\* time grid exactly when it is undefined in the dtdd grid and in the dtdh
\* grid.
C4_SameUndefinedCells ==
    (ParseReturned /\ FiveMarkersInOrder(lines)) =>
        /\ NaNCells(table.times) = NaNCells(table.dtdd)
        /\ NaNCells(table.times) = NaNCells(table.dtdh)

\* C5 (as claimed): _parse_tt completes only on a file that holds all five
\* marker lines; with one absent it fails instead of using an index left at 0.
C5_MissingMarkerFails ==
    ParseReturned => \A k \in 1..5 : MarkerAt(lines, k) # {}

TimesSectionLines(ls) ==
    LET ix == FirstPass(ls) IN
    {i \in 0..(Len(ls) - 1) : SectionOf(i, ix) = "times"}

C10_InterpolantsOverDefinedCells ==
    ppc = "built" =>
        LET pts == Pick(MeshPoints(table.ecdists, table.depths_km),
                        [k \in 1..Len(Flatten(table.times)) |->
                            ~IsNaN(Flatten(table.times)[k])], 1)
        IN  /\ phaseObj.times_io.points = pts
            /\ phaseObj.dtdd_io.points = pts
            /\ phaseObj.dtdh_io.points = pts
            /\ \A io \in {phaseObj.times_io, phaseObj.dtdd_io, phaseObj.dtdh_io} :
                  /\ Len(io.values) = Len(pts)
                  /\ \A k \in 1..Len(io.values) : ~IsNaN(io.values[k])

\* C10 witness: a Phase built from a table with an undefined cell
C10_Witness ==
    /\ ppc = "built"
    /\ NaNCells(table.times) # {}
    /\ NaNCells(table.dtdd) # {}

(***************************************************************************)
(* Claims about get_tt, get_dtdd and get_dtdh (SpecQuery, SpecConc).       *)
(***************************************************************************)
Registered(reg, model, label) == model \in DOMAIN reg /\ label \in DOMAIN reg[model].objs

Finished(t) == th[t].pc = "done"
WellFormedBatch(q) ==
    /\ q.batched
    /\ Hashable(q.model)
    /\ Len(q.ecdist) = Len(q.phase)
    /\ Len(q.depth_km) = Len(q.phase)

\* the scalar call for entry i of a batched call
ScalarAt(q, i) ==
    [fn |-> q.fn, batched |-> FALSE, phase |-> <<q.phase[i]>>, ecdist |-> <<q.ecdist[i]>>,
     depth_km |-> <<q.depth_km[i]>>, model |-> q.model]

\* C1 (as claimed): a scalar call whose (model, phase) has no Phase object
\* raises, naming the model, and returns nothing.
C1_ScalarNotFoundRaises ==
    \A t \in Threads :
        (Finished(t) /\ ~th[t].q.batched
            /\ ~Registered(phases0, th[t].q.model, th[t].q.phase[1]))
        => (th[t].out.kind = "raise" /\ th[t].out.model = th[t].q.model)

\* C2 (as claimed): a batched call with arrays of one length returns; every
\* slot of an unregistered label holds the fill value, every slot of a
\* registered label holds what its interpolant gave.
C2_BatchedFillsUnknown ==
    \A t \in Threads :
        (Finished(t) /\ WellFormedBatch(th[t].q)) =>
            /\ th[t].out.kind = "return"
            /\ \A i \in 1..Len(th[t].q.phase) :
                  IF Registered(phases0, th[t].q.model, th[t].q.phase[i])
                  THEN th[t].out.value[i] =
                          ToF4(Evaluate(InterpolatorOf(
                                   phases0[th[t].q.model].objs[th[t].q.phase[i]],
                                   th[t].q.fn),
                               th[t].q.ecdist[i], th[t].q.depth_km[i]))
                  ELSE th[t].out.value[i] = LARGE_VALUE

C6_RegistryUnchanged == phases = phases0

\* C7: whatever the interleaving, a call ends as it would have, run alone on
\* the registry as constructed.
C7_OutcomeAsIfAlone ==
    \A t \in Threads : Finished(t) => th[t].out = Run(phases0, Start(th[t].q)).st.out

\* C7 witness: t1 has finished a call that put a model key into the
\* registry while t2 is inside the defaultdict's factory for the same key
C7_Witness ==
    /\ Finished("t1")
    /\ th["t1"].q.model = "zz"
    /\ th["t2"].pc = "missing"
    /\ "zz" \in DOMAIN phases

\* C9: an exception raised inside a call reaches the caller, and what
\* reaches the caller is always the ValueError naming the model.
C9_OnlyValueErrorEscapes ==
    \A t \in Threads :
        Finished(t) =>
            /\ th[t].exc # "" => th[t].out.kind = "raise"
            /\ th[t].out.kind = "raise" =>
                  (th[t].out.exc = "ValueError" /\ th[t].out.model = th[t].q.model)

\* C9 witness: a batched call whose distance array is too short has ended
C9_Witness ==
    /\ Finished("t1")
    /\ th["t1"].exc = "IndexError"
    /\ th["t1"].out.kind = "raise"
====
